---- MODULE Spec2Model ----
(***************************************************************************)
(* A model of audiotools' loudness meter (audiotools/core/loudness.py) and *)
(* of the masking of its data transforms (audiotools/data/transforms.py).  *)
(*                                                                         *)
(* Conventions of the model                                                *)
(*  - A tensor is a view [store, idx]: `store` names a storage of the heap *)
(*    and `idx` is the nested sequence of the (1-based) storage positions  *)
(*    its elements occupy.  permute, slicing, reshape and as_strided only  *)
(*    rearrange idx; arithmetic allocates a fresh storage; an in-place     *)
(*    write changes the storage, and so every view of it.                  *)
(*  - Samples, filter coefficients and gains are integers; an energy is    *)
(*    kept as a sum of squares with its common factor 1/(T_g*rate) apart,  *)
(*    and a loudness -0.691 + 10*log10(E) is kept by its argument E (the   *)
(*    logarithm is monotone), so every comparison of the code is exact.    *)
(*  - block_size is kept in milliseconds (block_size = ms/1000).           *)
(***************************************************************************)
EXTENDS Integers, Sequences, FiniteSets, TLC

VARIABLES
    meter,      \* the Meter object of the running call
    heap,       \* tensor storages: storage name -> flat sequence of values
    locals,     \* local variables of the running Meter method
    pc,         \* position of the running method
    results,    \* values returned (or exceptions raised) by finished calls
    signal,     \* the AudioSignal that carries LoudnessMixin
    batch       \* the batch dictionary handed to a transform

vars == <<meter, heap, locals, pc, results, signal, batch>>

None == "None"

-----------------------------------------------------------------------------
(* Bounds of the model *)

MaxB == 2
MaxCh == 2
MaxT == 4
MaxZeros == 2
MaxRate == 24
MaxLen == 10
MaxExtra == 3
MaxCalls == 2

(* Program constants *)

NumChannels == 5
GammaA_E100 == 25
MinLoudness == -70

Samples == {0, 1, 5}

-----------------------------------------------------------------------------
(* Arithmetic helpers *)

Min(a, b) == IF a <= b THEN a ELSE b

Max(a, b) == IF a >= b THEN a ELSE b

RECURSIVE SumSeq(_)
SumSeq(s) == IF Len(s) = 0 THEN 0 ELSE s[1] + SumSeq(Tail(s))

Reverse(s) == [i \in 1..Len(s) |-> s[Len(s) + 1 - i]]

Zeros(n) == [i \in 1..n |-> 0]

-----------------------------------------------------------------------------
(* Tensors as views of heap storages *)

Sites == {"data", "iir", "fir", "unfolded", "z", "audio", "padded"}

EmptyHeap == [s \in Sites |-> <<>>]

RowMajor3(d0, d1, d2) ==
    [b \in 1..d0 |-> [i \in 1..d1 |-> [j \in 1..d2 |->
        ((b - 1) * d1 + (i - 1)) * d2 + j]]]

Shape3(x) == <<Len(x), Len(x[1]), Len(x[1][1])>>

Flat3(x) ==
    LET d1 == Len(x[1])
        d2 == Len(x[1][1])
    IN  [p \in 1..(Len(x) * d1 * d2) |->
            x[((p - 1) \div (d1 * d2)) + 1][(((p - 1) \div d2) % d1) + 1][((p - 1) % d2) + 1]]

Values3(h, t) ==
    [b \in 1..Len(t.idx) |-> [i \in 1..Len(t.idx[1]) |-> [j \in 1..Len(t.idx[1][1]) |->
        h[t.store][t.idx[b][i][j]]]]]

\* a freshly allocated, contiguous tensor holding the nested values x
Fresh3(h, site, x, cuda) ==
    [heap |-> [h EXCEPT ![site] = Flat3(x)],
     t |-> [store |-> site, cuda |-> cuda,
            idx |-> RowMajor3(Len(x), Len(x[1]), Len(x[1][1]))]]

permute021(idx) ==
    [b \in 1..Len(idx) |-> [j \in 1..Len(idx[1][1]) |-> [i \in 1..Len(idx[1]) |->
        idx[b][i][j]]]]

\* torch's is_contiguous: the elements lie one after the other in row-major order
IsContiguous3(idx) ==
    LET f == Flat3(idx)
    IN  \A p \in 2..Len(f) : f[p] = f[p - 1] + 1

-----------------------------------------------------------------------------
(* Meter.__init__: the weighting filters and their impulse responses *)

FilterClasses == {"K-weighting", "Fenton/Lee 1"}

\* pyloudnorm's filter_class setter: the ordered stages of a class, each with
\* normalised coefficients (a[1] = 1) and a passband gain.  The coefficients
\* are small integers standing for pyloudnorm's: a two-stage class whose first
\* stage is recursive, and a one-stage class with a gain other than 1
FilterStages(filter_class) ==
    IF filter_class = "K-weighting"
    THEN << [b |-> <<2, 1, 0>>, a |-> <<1, 1, 0>>, passband_gain |-> 1],
            [b |-> <<1, -1, 0>>, a |-> <<1, 0, 0>>, passband_gain |-> 1] >>
    ELSE << [b |-> <<1, 0, 0>>, a |-> <<1, 0, 1>>, passband_gain |-> 2] >>

\* scipy.signal.lfilter / torchaudio.functional.lfilter along the time axis:
\* y[n] = sum_i b[i] x[n-i] - sum_{i >= 1} a[i] y[n-i]
RECURSIVE lfilter_from(_, _, _, _)
lfilter_from(b, a, x, y) ==
    IF Len(y) = Len(x) THEN y
    ELSE LET n == Len(y) + 1
             ff == SumSeq([i \in 1..Min(Len(b), n) |-> b[i] * x[n - i + 1]])
             fb == SumSeq([i \in 1..(Min(Len(a), n) - 1) |-> a[i + 1] * y[n - i]])
         IN  lfilter_from(b, a, x, Append(y, ff - fb))

lfilter(b, a, x) == lfilter_from(b, a, x, <<>>)

Impulse(zeros) == [i \in 1..zeros |-> IF i = 1 THEN 1 ELSE 0]

\* the impulse response kept in its natural order, the reversal forgotten
StoredFirUnreversed(stage, zeros) == lfilter(stage.b, stage.a, Impulse(zeros))

\* firs[i] = lfilter(b, a, impulse), stored reversed (firs[..., ::-1])
StoredFir(stage, zeros) == Reverse(lfilter(stage.b, stage.a, Impulse(zeros)))

G100 == <<100, 100, 100, 141, 141>>

MeterInit(rate, filter_class, block_size, zeros, use_fir) ==
    IF filter_class \notin FilterClasses
    THEN [exc |-> "ValueError"]
    ELSE LET stages == FilterStages(filter_class)
         IN  [exc |-> None,
              rate |-> rate,
              filter_class |-> filter_class,
              block_size |-> block_size,
              use_fir |-> use_fir,
              G |-> G100,
              filters |-> stages,
              firs |-> [i \in 1..Len(stages) |-> StoredFir(stages[i], zeros)],
              passband_gain |-> [i \in 1..Len(stages) |-> stages[i].passband_gain]]

-----------------------------------------------------------------------------
(* Meter.apply_filter_gpu *)

\* F.pad(data, (pad_length, pad_length))
Pad(row, p) == Zeros(p) \o row \o Zeros(p)

\* julius.fftconv.fft_conv1d: like conv1d, a cross-correlation without padding
fft_conv1d(row, w) ==
    [m \in 1..(Len(row) - Len(w) + 1) |->
        SumSeq([j \in 1..Len(w) |-> w[j] * row[m + j - 1]])]

\* data[..., 1 : nt + 1] of a sequence of positions
SliceFrom1(row, nt) == SubSeq(row, 2, Min(nt + 1, Len(row)))

\* data.permute(0, 2, 1).reshape(nb * nch, 1, nt); the result is only read
gpu_reshape(t) ==
    LET p == permute021(t.idx)
        nch == Len(p[1])
    IN  [t EXCEPT !.idx = [r \in 1..(Len(p) * nch) |->
            << p[((r - 1) \div nch) + 1][((r - 1) % nch) + 1] >>]]

\* one pass of the loop: pad, convolve, scale, slice
gpu_stage(h, m, data, i, nt) ==
    LET x == Values3(h, data)
        P == Len(m.firs[i])
        y == [r \in 1..Len(x) |->
                LET conv == fft_conv1d(Pad(x[r][1], P), m.firs[i])
                IN  << [n \in 1..Len(conv) |-> m.passband_gain[i] * conv[n]] >>]
        f == Fresh3(h, "fir", y, data.cuda)
    IN  [heap |-> f.heap,
         t |-> [f.t EXCEPT !.idx = [r \in 1..Len(x) |-> << SliceFrom1(f.t.idx[r][1], nt) >>]]]

RECURSIVE gpu_loop(_, _, _, _, _)
gpu_loop(h, m, data, i, nt) ==
    IF i > Len(m.firs) THEN [heap |-> h, t |-> data]
    ELSE LET s == gpu_stage(h, m, data, i, nt)
         IN  gpu_loop(s.heap, m, s.t, i + 1, nt)

\* data.permute(0, 2, 1) and data[:, :nt, :]
gpu_exit(data, nt) ==
    LET p == permute021(data.idx)
    IN  [data EXCEPT !.idx = [b \in 1..Len(p) |-> SubSeq(p[b], 1, Min(nt, Len(p[b])))]]

apply_filter_gpu(h, m, data) ==
    LET nt == Len(data.idx[1])
        r == gpu_loop(h, m, gpu_reshape(data), 1, nt)
    IN  [heap |-> r.heap, t |-> gpu_exit(r.t, nt)]

-----------------------------------------------------------------------------
(* Meter.apply_filter_cpu *)

\* a pass that writes the filtered samples over its operand instead of
\* allocating a result
cpu_stage_inplace(h, m, data, i) ==
    LET x == Values3(h, [data EXCEPT !.idx = permute021(data.idx)])
        stage == m.filters[i]
        y == [b \in 1..Len(x) |-> [c \in 1..Len(x[1]) |->
                LET f == lfilter(stage.b, stage.a, x[b][c])
                IN  [n \in 1..Len(f) |-> stage.passband_gain * f[n]]]]
        at(p) == CHOOSE q \in (1..Len(x)) \X (1..Len(x[1])) \X (1..Len(x[1][1])) :
                     data.idx[q[1]][q[3]][q[2]] = p
    IN  [heap |-> [h EXCEPT ![data.store] = [p \in 1..Len(@) |->
                      IF \E b \in 1..Len(x) : \E c \in 1..Len(x[1]) :
                            \E n \in 1..Len(x[1][1]) : data.idx[b][n][c] = p
                      THEN y[at(p)[1]][at(p)[2]][at(p)[3]] ELSE @[p]]],
         t |-> data]

\* one pass of the loop: lfilter on the permuted data, permuted back and scaled;
\* the product keeps the permuted layout of its operand
cpu_stage(h, m, data, i) ==
    LET x == Values3(h, [data EXCEPT !.idx = permute021(data.idx)])
        stage == m.filters[i]
        y == [b \in 1..Len(x) |-> [c \in 1..Len(x[1]) |->
                LET f == lfilter(stage.b, stage.a, x[b][c])
                IN  [n \in 1..Len(f) |-> stage.passband_gain * f[n]]]]
        f == Fresh3(h, "iir", y, data.cuda)
    IN  [heap |-> f.heap, t |-> [f.t EXCEPT !.idx = permute021(f.t.idx)]]

RECURSIVE cpu_loop(_, _, _, _)
cpu_loop(h, m, data, i) ==
    IF i > Len(m.filters) THEN [heap |-> h, t |-> data]
    ELSE LET s == cpu_stage(h, m, data, i)
         IN  cpu_loop(s.heap, m, s.t, i + 1)

apply_filter_cpu(h, m, data) == cpu_loop(h, m, data, 1)

UsesGpu(m, data) == data.cuda \/ m.use_fir

apply_filter(h, m, data) ==
    IF UsesGpu(m, data) THEN apply_filter_gpu(h, m, data) ELSE apply_filter_cpu(h, m, data)

-----------------------------------------------------------------------------
(* unfold1d and Meter.unfold *)

Overlap100 == 75

\* the block length rounded up instead of truncated
KernelSizeCeil(m) == (m.block_size * m.rate + 999) \div 1000

\* kernel_size = int(T_g * self.rate)
KernelSize(m) == (m.block_size * m.rate) \div 1000

\* stride = int(T_g * self.rate * step), step = 1.0 - overlap
Stride(m) == (m.block_size * m.rate * (100 - Overlap100)) \div 100000

NFrames(length, kernel_size, stride) ==
    ((Max(length, kernel_size) - kernel_size) \div stride) + 1

TgtLength(n_frames, kernel_size, stride) == (n_frames - 1) * stride + kernel_size

\* input.as_strided(shape + [n_frames, kernel_size], strides[:-1] + [stride, 1]):
\* frame k of row (b, c) starts stride * k after the row's first element
AsStrided(idx, n_frames, kernel_size, stride) ==
    [b \in 1..Len(idx) |-> [c \in 1..Len(idx[1]) |->
        [k \in 1..n_frames |-> [j \in 1..kernel_size |->
            idx[b][c][1] + (k - 1) * stride + (j - 1)]]]]

\* the bounds check of as_strided against the storage it views
InStorage(h, store, idx4) ==
    \A b \in 1..Len(idx4) : \A c \in 1..Len(idx4[1]) :
        \A k \in 1..Len(idx4[1][1]) : \A j \in 1..Len(idx4[1][1][1]) :
            idx4[b][c][k][j] <= Len(h[store])

\* out.transpose(-1, -2)
TransposeLast(idx4) ==
    [b \in 1..Len(idx4) |-> [c \in 1..Len(idx4[1]) |->
        [j \in 1..Len(idx4[1][1][1]) |-> [k \in 1..Len(idx4[1][1]) |->
            idx4[b][c][k][j]]]]]

unfold1d(h, input, kernel_size, stride) ==
    LET length == Len(input.idx[1][1])
    IN  IF stride = 0
        THEN [heap |-> h, exc |-> "ZeroDivisionError", n_frames |-> None, out |-> None]
        ELSE
        LET n_frames == NFrames(length, kernel_size, stride)
            tgt_length == TgtLength(n_frames, kernel_size, stride)
            sliced == [input EXCEPT !.idx = [b \in 1..Len(input.idx) |->
                          [c \in 1..Len(input.idx[1]) |->
                              SubSeq(input.idx[b][c], 1, Min(tgt_length, length))]]]
            cont == IF IsContiguous3(sliced.idx)
                    THEN [heap |-> h, t |-> sliced]
                    ELSE Fresh3(h, "unfolded", Values3(h, sliced), input.cuda)
            idx4 == AsStrided(cont.t.idx, n_frames, kernel_size, stride)
        IN  IF ~InStorage(cont.heap, cont.t.store, idx4)
            THEN [heap |-> cont.heap, exc |-> "RuntimeError",
                  n_frames |-> n_frames, out |-> None]
            ELSE [heap |-> cont.heap, exc |-> None, n_frames |-> n_frames,
                  out |-> [cont.t EXCEPT !.idx = TransposeLast(idx4)]]

unfold(h, m, input_data) ==
    unfold1d(h, [input_data EXCEPT !.idx = permute021(input_data.idx)],
             KernelSize(m), Stride(m))

-----------------------------------------------------------------------------
(* Floating-point values the gating produces *)

RECURSIVE GCD(_, _)
GCD(a, b) == IF b = 0 THEN a ELSE GCD(b, a % b)

\* a quotient num/den of non-negative numbers: 0/0 is NaN, x/0 is +inf
Quot(num, den) == [num |-> num, den |-> den]

IsNaN(q) == q.den = 0 /\ q.num = 0

IsInf(q) == q.den = 0 /\ q.num # 0

Reduced(q) ==
    IF q.den = 0 THEN q
    ELSE LET g == GCD(q.num, q.den) IN [num |-> q.num \div g, den |-> q.den \div g]

RAdd(p, q) == Reduced([num |-> p.num * q.den + q.num * p.den, den |-> p.den * q.den])

RECURSIVE RSum(_)
RSum(s) == IF Len(s) = 0 THEN Quot(0, 1) ELSE RAdd(s[1], RSum(Tail(s)))

\* sum_c G[c] * q[c] over the channels, G in hundredths, with the broadcast of a
\* single channel against G[:nch]; NaN and inf propagate
WeightedSum(G, q, nch) ==
    LET n == Max(Len(q), nch)
        term(c) == LET qc == q[IF Len(q) = 1 THEN 1 ELSE c]
                   IN  Quot(G[IF nch = 1 THEN 1 ELSE c] * qc.num, qc.den)
    IN  IF \E c \in 1..n : IsNaN(term(c)) THEN [kind |-> "nan"]
        ELSE IF \E c \in 1..n : IsInf(term(c)) THEN [kind |-> "inf"]
        ELSE LET t == RSum([c \in 1..n |-> term(c)])
             IN  [kind |-> "num", num |-> t.num, den |-> t.den]

\* the block loudness l = -0.691 + 10 log10(W / (100 T_g rate)) is kept as W, the
\* weighted sum of squares.  l <= Gamma_a, with Gamma_a = -70 the loudness of the
\* energy GammaA_E100 / 100
AbsGateW(m) == (GammaA_E100 * m.block_size * m.rate) \div 1000

BelowAbs(m, W) == W <= AbsGateW(m)

AboveAbs(m, W) == W > AbsGateW(m)

\* Gamma_r = -0.691 + 10 log10(g) - 10 is kept as g, in the units of W:
\* l <= Gamma_r iff 10 W <= g
BelowRel(W, g) ==
    CASE g.kind = "nan" -> FALSE
      [] g.kind = "inf" -> TRUE
      [] OTHER -> 10 * W * g.den <= g.num

AboveRel(W, g) ==
    CASE g.kind = "nan" -> FALSE
      [] g.kind = "inf" -> FALSE
      [] OTHER -> 10 * W * g.den > g.num

-----------------------------------------------------------------------------
(* Meter.integrated_loudness, step by step *)

Values4(h, t) ==
    [b \in 1..Len(t.idx) |-> [c \in 1..Len(t.idx[1]) |->
        [j \in 1..Len(t.idx[1][1]) |-> [k \in 1..Len(t.idx[1][1][1]) |->
            h[t.store][t.idx[b][c][j][k]]]]]]

\* t[mask] = v, in place: every view of the storage sees it
MaskedFill(h, t, mask, v) ==
    [h EXCEPT ![t.store] =
        [p \in 1..Len(@) |->
            IF \E b \in 1..Len(t.idx) : \E c \in 1..Len(t.idx[1]) :
                  \E k \in 1..Len(t.idx[1][1]) : t.idx[b][c][k] = p /\ mask[b][c][k]
            THEN v ELSE @[p]]]

\* t.sum(2) / masked.sum(2)
GatedAverage(h, t, masked) ==
    LET x == Values3(h, t)
    IN  [b \in 1..Len(x) |-> [c \in 1..Len(x[1]) |->
            Quot(SumSeq(x[b][c]),
                 Cardinality({k \in 1..Len(masked[b][c]) : masked[b][c][k]}))]]

NoLocals ==
    [data |-> None, input_data |-> None, nb |-> None, nt |-> None, nch |-> None,
     unfolded |-> None, z |-> None, l |-> None, z_avg_gated |-> None,
     Gamma_r |-> None, exc |-> None, LUFS |-> None]

\* lines 123-136: a float tensor is taken as it is and copy.copy shares its storage
il_enter(h, m, data) ==
    [heap |-> h, pc |-> "filter",
     locals |-> [NoLocals EXCEPT !.data = data, !.input_data = data,
                                 !.nb = Len(data.idx), !.nt = Len(data.idx[1]),
                                 !.nch = Len(data.idx[1][1])]]

\* line 140
il_filter(h, m, loc) ==
    LET r == apply_filter(h, m, loc.input_data)
    IN  [heap |-> r.heap, pc |-> "unfold", locals |-> [loc EXCEPT !.input_data = r.t]]

\* line 146
il_unfold(h, m, loc) ==
    LET u == unfold(h, m, loc.input_data)
    IN  IF u.exc # None
        THEN [heap |-> u.heap, pc |-> "raised", locals |-> [loc EXCEPT !.exc = u.exc]]
        ELSE [heap |-> u.heap, pc |-> "energy", locals |-> [loc EXCEPT !.unfolded = u.out]]

\* unfolded.square().sum(2), the factor 1 / (T_g * rate) left out
SquareSum(x) ==
    [b \in 1..Len(x) |-> [c \in 1..Len(x[1]) |-> [k \in 1..Len(x[1][1][1]) |->
        SumSeq([j \in 1..Len(x[1][1]) |-> x[b][c][j][k] * x[b][c][j][k]])]]]

\* (G[None, :nch, None] * z).sum(1, keepdim=True), expanded as z
BlockLoudness(G, z, nch) ==
    LET n == Max(Len(z[1]), nch)
    IN  [b \in 1..Len(z) |-> [c \in 1..Len(z[1]) |-> [k \in 1..Len(z[1][1]) |->
            SumSeq([cc \in 1..n |->
                G[IF nch = 1 THEN 1 ELSE cc] * z[b][IF Len(z[1]) = 1 THEN 1 ELSE cc][k]])]]]

\* lines 148-150
il_energy(h, m, loc) ==
    LET zv == SquareSum(Values4(h, loc.unfolded))
        f == Fresh3(h, "z", zv, loc.unfolded.cuda)
    IN  [heap |-> f.heap, pc |-> "absgate",
         locals |-> [loc EXCEPT !.z = f.t, !.l = BlockLoudness(m.G, zv, loc.nch)]]

\* l <= Gamma_a
AbsBelowMask(m, l) ==
    [b \in 1..Len(l) |-> [c \in 1..Len(l[1]) |-> [k \in 1..Len(l[1][1]) |->
        BelowAbs(m, l[b][c][k])]]]

\* l > Gamma_a
AbsAboveMask(m, l) ==
    [b \in 1..Len(l) |-> [c \in 1..Len(l[1]) |-> [k \in 1..Len(l[1][1]) |->
        AboveAbs(m, l[b][c][k])]]]

\* lines 153-156: z_avg_gated is z itself, zeroed in place
il_absgate(h, m, loc) ==
    LET h1 == MaskedFill(h, loc.z, AbsBelowMask(m, loc.l), 0)
    IN  [heap |-> h1, pc |-> "relthreshold",
         locals |-> [loc EXCEPT
             !.z_avg_gated = GatedAverage(h1, loc.z, AbsAboveMask(m, loc.l))]]

\* lines 159-163: Gamma_r per row, then Gamma_r[:, None, None].expand(nb, nch, blocks)
il_relthreshold(h, m, loc) ==
    LET g == [b \in 1..Len(loc.z_avg_gated) |->
                 WeightedSum(m.G, loc.z_avg_gated[b], loc.nch)]
    IN  IF Len(g) # 1 /\ Len(g) # loc.nb
        THEN [heap |-> h, pc |-> "raised", locals |-> [loc EXCEPT !.exc = "RuntimeError"]]
        ELSE [heap |-> h, pc |-> "finalgate",
              locals |-> [loc EXCEPT !.Gamma_r =
                  [b \in 1..loc.nb |-> g[IF Len(g) = 1 THEN 1 ELSE b]]]]

\* the final mask without its absolute gate
RelativeGateOnly(m, l, Gamma_r) ==
    [b \in 1..Len(l) |-> [c \in 1..Len(l[1]) |-> [k \in 1..Len(l[1][1]) |->
        AboveRel(l[b][c][k], Gamma_r[b])]]]

\* masked = (l > Gamma_a) * (l > Gamma_r)
FinalMask(m, l, Gamma_r) ==
    [b \in 1..Len(l) |-> [c \in 1..Len(l[1]) |-> [k \in 1..Len(l[1][1]) |->
        AboveAbs(m, l[b][c][k]) /\ AboveRel(l[b][c][k], Gamma_r[b])]]]

\* l <= Gamma_r
RelBelowMask(l, Gamma_r) ==
    [b \in 1..Len(l) |-> [c \in 1..Len(l[1]) |-> [k \in 1..Len(l[1][1]) |->
        BelowRel(l[b][c][k], Gamma_r[b])]]]

\* lines 166-170: z again, as the first pass left it
il_finalgate(h, m, loc) ==
    LET h1 == MaskedFill(h, loc.z, AbsBelowMask(m, loc.l), 0)
        h2 == MaskedFill(h1, loc.z, RelBelowMask(loc.l, loc.Gamma_r), 0)
    IN  [heap |-> h2, pc |-> "finalize",
         locals |-> [loc EXCEPT
             !.z_avg_gated = GatedAverage(h2, loc.z, FinalMask(m, loc.l, loc.Gamma_r))]]

\* lines 174-178: NaN becomes 0; +inf becomes the largest float32, kept as x/0
Cleaned(q) == IF IsNaN(q) THEN Quot(0, 1) ELSE q

\* line 180: -0.691 + 10 log10(sum_c G[c] z_avg_gated[c]), kept by its argument
\* 10 num / (den block_size rate), reduced; log10(0) is -inf
Lufs(m, q, nch) ==
    LET e == WeightedSum(m.G, [c \in 1..Len(q) |-> Cleaned(q[c])], nch)
    IN  IF e.kind = "inf" THEN [kind |-> "max"]
        ELSE IF e.num = 0 THEN [kind |-> "-inf"]
        ELSE LET r == Reduced(Quot(10 * e.num, e.den * m.block_size * m.rate))
             IN  [kind |-> "num", num |-> r.num, den |-> r.den]

\* lines 174-181
il_finalize(h, m, loc) ==
    [heap |-> h, pc |-> "returned",
     locals |-> [loc EXCEPT
         !.z_avg_gated = [b \in 1..Len(@) |-> [c \in 1..Len(@[b]) |-> Cleaned(@[b][c])]],
         !.LUFS = [b \in 1..Len(loc.z_avg_gated) |-> Lufs(m, loc.z_avg_gated[b], loc.nch)]]]

il_step(m, fr) ==
    CASE fr.pc = "filter" -> il_filter(fr.heap, m, fr.locals)
      [] fr.pc = "unfold" -> il_unfold(fr.heap, m, fr.locals)
      [] fr.pc = "energy" -> il_energy(fr.heap, m, fr.locals)
      [] fr.pc = "absgate" -> il_absgate(fr.heap, m, fr.locals)
      [] fr.pc = "relthreshold" -> il_relthreshold(fr.heap, m, fr.locals)
      [] fr.pc = "finalgate" -> il_finalgate(fr.heap, m, fr.locals)
      [] fr.pc = "finalize" -> il_finalize(fr.heap, m, fr.locals)

RECURSIVE il_run(_, _)
il_run(m, fr) == IF fr.pc \in {"returned", "raised"} THEN fr ELSE il_run(m, il_step(m, fr))

\* what a finished call hands to its caller
Outcome(fr) ==
    IF fr.pc = "raised" THEN [exc |-> fr.locals.exc, value |-> None]
    ELSE [exc |-> None, value |-> fr.locals.LUFS]

\* the whole of Meter.integrated_loudness(data)
integrated_loudness(h, m, data) == il_run(m, il_enter(h, m, data))

-----------------------------------------------------------------------------
(* Inputs of the model: batches of shape (nb, nt, nch) *)

\* channel c of batch element b carries the wave w rotated by its row number
RotatedBatch(w, nb, nch) ==
    [b \in 1..nb |-> [t \in 1..Len(w) |-> [c \in 1..nch |->
        w[((t - 1 + (b - 1) * nch + (c - 1)) % Len(w)) + 1]]]]

Waves(nt) == [1..nt -> Samples]

InputHeap(x) == [EmptyHeap EXCEPT !["data"] = Flat3(x)]

InputTensor(x, cuda) ==
    [store |-> "data", cuda |-> cuda, idx |-> RowMajor3(Len(x), Len(x[1]), Len(x[1][1]))]

NoSignal == None

NoBatch == None

-----------------------------------------------------------------------------
(* SpecFilter: Meter.apply_filter, one action per pass of its loops *)

InitFilter ==
    /\ \E filter_class \in FilterClasses, zeros \in 1..MaxZeros, use_fir \in BOOLEAN :
           meter = MeterInit(10, filter_class, 400, zeros, use_fir)
    /\ \E nb \in 1..MaxB, nch \in 1..MaxCh, nt \in 1..MaxT, cuda \in BOOLEAN :
           \E w \in Waves(nt) :
              /\ heap = InputHeap(RotatedBatch(w, nb, nch))
              /\ locals = [input |-> InputTensor(RotatedBatch(w, nb, nch), cuda)]
    /\ pc = "apply_filter"
    /\ results = <<>>
    /\ signal = NoSignal
    /\ batch = NoBatch

\* apply_filter takes the convolution strategy: the reshape before the loop
GpuEnter ==
    /\ pc = "apply_filter"
    /\ UsesGpu(meter, locals.input)
    /\ locals' = [input |-> locals.input,
                  nt |-> Len(locals.input.idx[1]),
                  data |-> gpu_reshape(locals.input),
                  i |-> 1,
                  stage_in |-> None]
    /\ pc' = "gpu_loop"
    /\ UNCHANGED <<meter, heap, results, signal, batch>>

GpuStage ==
    /\ pc = "gpu_loop"
    /\ locals.i <= Len(meter.firs)
    /\ LET s == gpu_stage(heap, meter, locals.data, locals.i, locals.nt)
       IN  /\ heap' = s.heap
           /\ locals' = [locals EXCEPT !.data = s.t,
                                       !.i = locals.i + 1,
                                       !.stage_in = Values3(heap, locals.data)]
    /\ UNCHANGED <<meter, pc, results, signal, batch>>

GpuExit ==
    /\ pc = "gpu_loop"
    /\ locals.i > Len(meter.firs)
    /\ locals' = [input |-> locals.input, out |-> gpu_exit(locals.data, locals.nt)]
    /\ pc' = "filtered"
    /\ UNCHANGED <<meter, heap, results, signal, batch>>

\* apply_filter takes the direct strategy
CpuEnter ==
    /\ pc = "apply_filter"
    /\ ~UsesGpu(meter, locals.input)
    /\ locals' = [input |-> locals.input, data |-> locals.input, i |-> 1]
    /\ pc' = "cpu_loop"
    /\ UNCHANGED <<meter, heap, results, signal, batch>>

CpuStage ==
    /\ pc = "cpu_loop"
    /\ locals.i <= Len(meter.filters)
    /\ LET s == cpu_stage(heap, meter, locals.data, locals.i)
       IN  /\ heap' = s.heap
           /\ locals' = [locals EXCEPT !.data = s.t, !.i = locals.i + 1]
    /\ UNCHANGED <<meter, pc, results, signal, batch>>

CpuExit ==
    /\ pc = "cpu_loop"
    /\ locals.i > Len(meter.filters)
    /\ locals' = [input |-> locals.input, out |-> locals.data]
    /\ pc' = "filtered"
    /\ UNCHANGED <<meter, heap, results, signal, batch>>

NextFilter == GpuEnter \/ GpuStage \/ GpuExit \/ CpuEnter \/ CpuStage \/ CpuExit

SpecFilter == InitFilter /\ [][NextFilter]_vars

\* C1: apply_filter returns a tensor with exactly the shape of its input,
\* whichever strategy ran.
C1_SameShape ==
    pc = "filtered" => Shape3(locals.out.idx) = Shape3(locals.input.idx)

\* the h of claim C9: the stage's impulse response, in its natural order
ImpulseResponse(i) ==
    lfilter(meter.filters[i].b, meter.filters[i].a, Impulse(Len(meter.firs[i])))

\* the causal truncated response of stage i to the row x, at sample n (from 0)
CausalResponse(i, x, n) ==
    meter.passband_gain[i] *
        SumSeq([k \in 1..(Min(n, Len(meter.firs[i]) - 1) + 1) |->
                    ImpulseResponse(i)[k] * x[n - (k - 1) + 1]])

\* C9: every pass of the convolution strategy leaves, in each row, nt samples
\* with out[n] = passband_gain * sum_{i = 0..min(n, P-1)} h[i] * x[n-i], x being
\* the row as the pass found it (the previous pass's output).
C9_StageIsCausalResponse ==
    (pc = "gpu_loop" /\ locals.i > 1) =>
        LET out == Values3(heap, locals.data)
        IN  /\ Len(out) = Len(locals.stage_in)
            /\ \A r \in 1..Len(out) :
                   /\ Len(out[r][1]) = locals.nt
                   /\ Len(locals.stage_in[r][1]) = locals.nt
                   /\ \A n \in 0..(locals.nt - 1) :
                          out[r][1][n + 1] = CausalResponse(locals.i - 1, locals.stage_in[r][1], n)

\* a second pass has run on a row longer than the impulse response whose first
\* sample is not zero: the truncation and the chaining of the passes both show
C9_Witness ==
    /\ pc = "gpu_loop"
    /\ locals.i > 2
    /\ locals.nt > Len(meter.firs[1])
    /\ Len(meter.firs[1]) > 1
    /\ \E r \in 1..Len(locals.stage_in) :
           /\ locals.stage_in[r][1][1] # 0
           /\ Values3(heap, locals.data)[r][1][locals.nt] # 0

-----------------------------------------------------------------------------
(* SpecUnfold: Meter.unfold on the output of Meter.apply_filter *)

UnfoldBlockSizes == {250, 400, 500}

\* the batch whose sample at time t (from 1) is t
Ramp(nb, nt, nch) == [b \in 1..nb |-> [t \in 1..nt |-> [c \in 1..nch |-> t]]]

InitUnfold ==
    /\ \E rate \in 1..MaxRate, block_size \in UnfoldBlockSizes,
          zeros \in 1..MaxZeros, use_fir \in BOOLEAN :
           meter = MeterInit(rate, "K-weighting", block_size, zeros, use_fir)
    /\ \E nb \in 1..MaxB, nt \in 1..MaxLen :
           /\ heap = InputHeap(Ramp(nb, nt, 1))
           /\ locals = [input_data |-> InputTensor(Ramp(nb, nt, 1), FALSE),
                        length |-> nt]
    /\ pc = "apply_filter"
    /\ results = <<>>
    /\ signal = NoSignal
    /\ batch = NoBatch

\* input_data = self.apply_filter(input_data)
UnfoldFilter ==
    /\ pc = "apply_filter"
    /\ LET r == apply_filter(heap, meter, locals.input_data)
       IN  /\ heap' = r.heap
           /\ locals' = [locals EXCEPT !.input_data = r.t]
    /\ pc' = "unfold"
    /\ UNCHANGED <<meter, results, signal, batch>>

\* unfolded = self.unfold(input_data)
UnfoldCall ==
    /\ pc = "unfold"
    /\ LET u == unfold(heap, meter, locals.input_data)
       IN  /\ heap' = u.heap
           /\ locals' = [length |-> locals.length,
                         kernel_size |-> KernelSize(meter),
                         stride |-> Stride(meter),
                         n_frames |-> u.n_frames,
                         exc |-> u.exc,
                         unfolded |-> u.out]
           /\ pc' = IF u.exc = None THEN "unfolded" ELSE "raised"
    /\ UNCHANGED <<meter, results, signal, batch>>

NextUnfold == UnfoldFilter \/ UnfoldCall

SpecUnfold == InitUnfold /\ [][NextUnfold]_vars

\* C5: windowing yields floor((L - K)/S) + 1 whole blocks when L >= K and none
\* when L < K, each block k with k*S + K <= L, and never fails for want of
\* samples (K >= 1, S >= 1).
C5_WholeBlocksOnly ==
    (pc \in {"unfolded", "raised"} /\ locals.stride >= 1) =>
        /\ locals.exc = None
        /\ locals.n_frames = IF locals.length >= locals.kernel_size
                             THEN ((locals.length - locals.kernel_size) \div locals.stride) + 1
                             ELSE 0
        /\ \A k \in 0..(locals.n_frames - 1) :
               k * locals.stride + locals.kernel_size <= locals.length

\* Python's round of n/d: to nearest, a half to the even neighbour
RoundDiv(n, d) ==
    LET q == n \div d
        r2 == 2 * (n % d)
    IN  IF r2 < d THEN q
        ELSE IF r2 > d THEN q + 1
        ELSE IF q % 2 = 0 THEN q ELSE q + 1

\* C6: block length = round(T_g * rate), stride = round(block length * (1 - 0.75)).
C6_Rounded ==
    pc = "unfolded" =>
        /\ locals.kernel_size = RoundDiv(meter.block_size * meter.rate, 1000)
        /\ locals.stride = RoundDiv(locals.kernel_size * (100 - Overlap100), 100)

\* C6 as amended: both values are truncated, and the stride is the truncated
\* quarter of the unrounded product T_g * rate:
\* kernel_size <= T_g*rate < kernel_size + 1, stride <= T_g*rate/4 < stride + 1.
C6_Truncated ==
    pc \in {"unfolded", "raised"} =>
        /\ locals.kernel_size * 1000 <= meter.block_size * meter.rate
        /\ meter.block_size * meter.rate < (locals.kernel_size + 1) * 1000
        /\ locals.stride * 4000 <= meter.block_size * meter.rate
        /\ meter.block_size * meter.rate < (locals.stride + 1) * 4000

\* unfold ran with a product T_g * rate whose fraction is a half or more, where
\* truncating and rounding differ
C6_Witness ==
    /\ pc = "unfolded"
    /\ (meter.block_size * meter.rate) % 1000 >= 500
    /\ locals.n_frames >= 2

-----------------------------------------------------------------------------
(* SpecMeter: calls of Meter.integrated_loudness on one batch, step by step *)

\* waves that open with a burst at one level, fall silent, and end on a click
BurstClickWaves(nt) ==
    {[t \in 1..nt |-> IF t <= p THEN a1 ELSE IF t = nt THEN a2 ELSE 0] :
        p \in 0..(nt - 1), a1 \in Samples, a2 \in Samples}

ChannelCounts == (1..MaxCh) \cup {NumChannels}

InitMeter ==
    /\ \E filter_class \in FilterClasses, use_fir \in BOOLEAN :
           meter = MeterInit(10, filter_class, 400, MaxZeros, use_fir)
    /\ \E nb \in 1..MaxB, nch \in ChannelCounts, nt \in 3..(4 + MaxExtra) :
           \E w \in BurstClickWaves(nt) :
              /\ heap = InputHeap(RotatedBatch(w, nb, nch))
              /\ results = [data |-> InputTensor(RotatedBatch(w, nb, nch), FALSE),
                            data0 |-> Flat3(RotatedBatch(w, nb, nch)),
                            meter0 |-> meter,
                            returned |-> <<>>]
    /\ locals = NoLocals
    /\ pc = "call"
    /\ signal = NoSignal
    /\ batch = NoBatch

\* a step's frame becomes the state; a finished call hands over its outcome
Advance(fr) ==
    /\ heap' = fr.heap
    /\ locals' = fr.locals
    /\ IF fr.pc \in {"returned", "raised"}
       THEN /\ pc' = "call"
            /\ results' = [results EXCEPT !.returned = Append(@, Outcome(fr))]
       ELSE /\ pc' = fr.pc
            /\ UNCHANGED results
    /\ UNCHANGED <<meter, signal, batch>>

IL_Enter ==
    /\ pc = "call"
    /\ Len(results.returned) < MaxCalls
    /\ Advance(il_enter(heap, meter, results.data))

IL_Filter == pc = "filter" /\ Advance(il_filter(heap, meter, locals))

IL_Unfold == pc = "unfold" /\ Advance(il_unfold(heap, meter, locals))

IL_Energy == pc = "energy" /\ Advance(il_energy(heap, meter, locals))

IL_AbsGate == pc = "absgate" /\ Advance(il_absgate(heap, meter, locals))

IL_RelThreshold == pc = "relthreshold" /\ Advance(il_relthreshold(heap, meter, locals))

IL_FinalGate == pc = "finalgate" /\ Advance(il_finalgate(heap, meter, locals))

IL_Finalize == pc = "finalize" /\ Advance(il_finalize(heap, meter, locals))

NextMeter ==
    \/ IL_Enter
    \/ IL_Filter
    \/ IL_Unfold
    \/ IL_Energy
    \/ IL_AbsGate
    \/ IL_RelThreshold
    \/ IL_FinalGate
    \/ IL_Finalize

SpecMeter == InitMeter /\ [][NextMeter]_vars

\* C3: successive calls with the same Meter and the same batch return the same,
\* and no step of a call changes the caller's samples or the Meter.
C3_Idempotent ==
    /\ heap["data"] = results.data0
    /\ meter = results.meter0
    /\ \A i \in 1..Len(results.returned) : results.returned[i] = results.returned[1]

\* two calls have returned loudness values, and the first pass of the gating
\* zeroed a block energy in place
C3_Witness ==
    /\ Len(results.returned) = 2
    /\ results.returned[2].exc = None
    /\ \E b \in 1..Len(results.returned[2].value) : results.returned[2].value[b].kind = "num"
    /\ \E p \in 1..Len(heap["z"]) : heap["z"][p] = 0
    /\ \E p \in 1..Len(heap["data"]) : heap["data"][p] # 0

\* the energies of step 2, computed afresh from the windowed samples
FreshZ == SquareSum(Values4(heap, locals.unfolded))

\* the block loudness of step 3, as its argument: W[b][k] = sum_c G[c] z[b,c,k]
FreshW(Z) ==
    [b \in 1..Len(Z) |-> [k \in 1..Len(Z[1][1]) |->
        SumSeq([c \in 1..Len(Z[1]) |-> meter.G[c] * Z[b][c][k]])]]

PassAbs(w) == 1000 * w > GammaA_E100 * meter.block_size * meter.rate

\* step 4: the blocks of one batch element above Gamma_a
AbsSurvivors(Wb) == {k \in 1..Len(Wb) : PassAbs(Wb[k])}

RECURSIVE SumOver(_, _)
SumOver(S, row) ==
    IF S = {} THEN 0
    ELSE LET k == CHOOSE x \in S : TRUE IN row[k] + SumOver(S \ {k}, row)

\* l[b,k] > Gamma_r[b], with A the blocks above Gamma_a:
\* 10 * W[b,k] > sum_c G[c] za[b,c] = (sum of W[b,j] over A) / |A|; never when
\* A is empty (za is NaN)
PassRel(Wb, A, k) == A # {} /\ 10 * Wb[k] * Cardinality(A) > SumOver(A, Wb)

\* step 5: the blocks above both thresholds
Survivors(Wb) ==
    LET A == AbsSurvivors(Wb) IN {k \in A : PassRel(Wb, A, k)}

\* C8: the final gated average is, for every batch element b and channel c, the
\* sum of the fresh step-2 energies over the blocks with l > Gamma_a and
\* l > Gamma_r[b], divided by the number of such blocks.
C8_FinalAverageOfFreshEnergies ==
    pc = "finalize" =>
        LET Z == FreshZ
            W == FreshW(Z)
        IN  /\ Len(locals.z_avg_gated) = locals.nb
            /\ \A b \in 1..locals.nb :
                   LET S == Survivors(W[b])
                   IN  /\ Len(locals.z_avg_gated[b]) = locals.nch
                       /\ \A c \in 1..locals.nch :
                              locals.z_avg_gated[b][c] = Quot(SumOver(S, Z[b][c]), Cardinality(S))

\* the final pass ran on energies the first pass had zeroed: one block fell to
\* the absolute gate, another only to the relative gate, and a third survived
C8_Witness ==
    /\ pc = "finalize"
    /\ LET W == FreshW(FreshZ)
       IN  \E b \in 1..locals.nb :
              LET A == AbsSurvivors(W[b])
              IN  /\ \E k \in 1..Len(W[b]) : k \notin A /\ W[b][k] # 0
                  /\ \E k \in A : ~PassRel(W[b], A, k)
                  /\ Survivors(W[b]) # {}

-----------------------------------------------------------------------------
(* LoudnessMixin.loudness on an AudioSignal *)

\* _loudness = None, among loudness tensors (one value per batch element)
NoLoudness == <<>>

\* an AudioSignal holding the samples x, of shape (nb, nch, nt)
AudioHeap(x) == [EmptyHeap EXCEPT !["audio"] = Flat3(x)]

SignalOf(x, sample_rate, cuda) ==
    [audio_data |-> [store |-> "audio", cuda |-> cuda,
                     idx |-> RowMajor3(Len(x), Len(x[1]), Len(x[1][1]))],
     sample_rate |-> sample_rate,
     _loudness |-> NoLoudness]

\* AudioSignal.signal_length: audio_data.shape[-1]
signal_length(sig) == Len(sig.audio_data.idx[1][1])

\* self.signal_duration < 0.5, the duration being signal_length / sample_rate
IsShort(sig) == 2 * signal_length(sig) < sig.sample_rate

\* pad_len = int((0.5 - self.signal_duration) * self.sample_rate)
PadLen(sig) == (sig.sample_rate - 2 * signal_length(sig)) \div 2

\* AudioSignal.zero_pad(0, after): the samples followed by zeros, a new tensor
zero_pad(h, sig, after) ==
    LET x == Values3(h, sig.audio_data)
        f == Fresh3(h, "padded",
                    [b \in 1..Len(x) |-> [c \in 1..Len(x[1]) |-> x[b][c] \o Zeros(after)]],
                    sig.audio_data.cuda)
    IN  [heap |-> f.heap, signal |-> [sig EXCEPT !.audio_data = f.t]]

\* AudioSignal.truncate_samples(length): audio_data[..., :length], a view
truncate_samples(sig, length) ==
    [sig EXCEPT !.audio_data.idx =
        [b \in 1..Len(@) |-> [c \in 1..Len(@[b]) |->
            SubSeq(@[b][c], 1, Min(length, Len(@[b][c])))]]]

\* MIN_LOUDNESS as a value of the loudness tensor
AtFloor == [kind |-> "dB", dB |-> MinLoudness]

\* torch.maximum(loudness, min_loudness): MIN_LOUDNESS = Gamma_a = -70 is the
\* loudness of the energy GammaA_E100 / 100
Floored(v) ==
    IF v.kind = "-inf" THEN AtFloor
    ELSE IF v.kind = "num" /\ 100 * v.num <= GammaA_E100 * v.den THEN AtFloor
    ELSE v

\* the tensors of a finished call are released
Released(h) == [s \in Sites |-> IF s \in {"audio", "padded"} THEN h[s] ELSE <<>>]

\* lines 216-234: pad, build the Meter, measure, truncate, floor and cache
measure(h, sig, filter_class, block_size, use_fir) ==
    LET original_length == signal_length(sig)
        p == IF IsShort(sig) THEN zero_pad(h, sig, PadLen(sig))
             ELSE [heap |-> h, signal |-> sig]
        m == MeterInit(sig.sample_rate, filter_class, block_size, MaxZeros, use_fir)
    IN  IF m.exc # None
        THEN [heap |-> p.heap, signal |-> p.signal, exc |-> m.exc, value |-> None]
        ELSE
        LET fr == integrated_loudness(p.heap, m,
                      [p.signal.audio_data EXCEPT !.idx = permute021(@)])
        IN  IF fr.pc = "raised"
            THEN [heap |-> Released(fr.heap), signal |-> p.signal,
                  exc |-> fr.locals.exc, value |-> None]
            ELSE
            LET v == [b \in 1..Len(fr.locals.LUFS) |-> Floored(fr.locals.LUFS[b])]
            IN  [heap |-> Released(fr.heap),
                 signal |-> [truncate_samples(p.signal, original_length)
                                EXCEPT !._loudness = v],
                 exc |-> None, value |-> v]

\* lines 214-215, then the rest
loudness(h, sig, filter_class, block_size, use_fir) ==
    IF sig._loudness # NoLoudness
    THEN [heap |-> h, signal |-> sig, exc |-> None, value |-> sig._loudness]
    ELSE measure(h, sig, filter_class, block_size, use_fir)

\* signal.audio_data[mask] = 0: an indexed write into the signal's own storage
silence_in_place(h, sig, mask) ==
    [h EXCEPT ![sig.audio_data.store] =
        [p \in 1..Len(@) |->
            IF \E b \in mask : \E c \in 1..Len(sig.audio_data.idx[1]) :
                  \E t \in 1..Len(sig.audio_data.idx[1][1]) : sig.audio_data.idx[b][c][t] = p
            THEN 0 ELSE @[p]]]

-----------------------------------------------------------------------------
(* SpecSignal: calls of signal.loudness(...) between in-place edits of the samples *)

SignalRates == {10}

SignalLengths == {3, 6}

SignalBlockSizes == {400, 600}

RequestedClasses == FilterClasses \cup {"A-weighting"}

ConstantAudio(nb, nch, nt, a) == [b \in 1..nb |-> [c \in 1..nch |-> [t \in 1..nt |-> a]]]

InitSignal ==
    /\ \E nb \in 1..MaxB, nch \in 1..MaxCh, nt \in SignalLengths, a \in Samples,
          sample_rate \in SignalRates, cuda \in BOOLEAN :
           /\ heap = AudioHeap(ConstantAudio(nb, nch, nt, a))
           /\ signal = SignalOf(ConstantAudio(nb, nch, nt, a), sample_rate, cuda)
    /\ results = [calls |-> 0, last |-> None]
    /\ pc = "idle"
    /\ meter = None
    /\ locals = NoLocals
    /\ batch = NoBatch

\* one call signal.loudness(filter_class, block_size, use_fir=...), whole
Loudness ==
    /\ results.calls < MaxCalls
    /\ \E filter_class \in RequestedClasses, block_size \in SignalBlockSizes, use_fir \in BOOLEAN :
           \E r \in {loudness(heap, signal, filter_class, block_size, use_fir)} :
               /\ heap' = r.heap
               /\ signal' = r.signal
               /\ results' = [calls |-> results.calls + 1,
                              last |-> [filter_class |-> filter_class,
                                        block_size |-> block_size,
                                        use_fir |-> use_fir,
                                        audio |-> Values3(heap, signal.audio_data),
                                        cuda |-> signal.audio_data.cuda,
                                        sample_rate |-> signal.sample_rate,
                                        cached |-> signal._loudness # NoLoudness,
                                        length_before |-> signal_length(signal),
                                        length_after |-> signal_length(signal'),
                                        exc |-> r.exc,
                                        value |-> r.value]]
    /\ UNCHANGED <<meter, locals, pc, batch>>

\* the samples of some batch elements are zeroed in place
SilenceSamples ==
    /\ \E mask \in (SUBSET (1..Len(signal.audio_data.idx))) \ {{}} :
           heap' = silence_in_place(heap, signal, mask)
    /\ heap' # heap
    /\ UNCHANGED <<meter, locals, pc, results, signal, batch>>

NextSignal == Loudness \/ SilenceSamples

SpecSignal == InitSignal /\ [][NextSignal]_vars

AllZero(x) == \A b \in 1..Len(x) : \A c \in 1..Len(x[1]) : \A t \in 1..Len(x[1][1]) : x[b][c][t] = 0

\* the measurement the last call's arguments and samples call for
FreshMeasurement(last) ==
    measure(AudioHeap(last.audio), SignalOf(last.audio, last.sample_rate, last.cuda),
            last.filter_class, last.block_size, last.use_fir)

\* C4: for an all-zero signal holding at least one full gating block (after the
\* padding to 0.5 s), measured with a filter class the Meter knows, loudness
\* returns exactly MIN_LOUDNESS for every batch element.
C4_SilenceIsFloor ==
    (/\ results.calls > 0
     /\ AllZero(results.last.audio)
     /\ results.last.filter_class \in FilterClasses
     /\ 1000 * Max(2 * results.last.length_before, results.last.sample_rate)
            >= 2 * results.last.block_size * results.last.sample_rate)
    => /\ results.last.exc = None
       /\ \A b \in 1..Len(results.last.audio) : results.last.value[b] = AtFloor

\* C7: a value returned by signal.loudness is the one a fresh measurement with
\* the call's filter_class and block_size on the current samples gives.
C7_NoStaleValue ==
    (results.calls > 0 /\ results.last.exc = None) =>
        /\ FreshMeasurement(results.last).exc = None
        /\ FreshMeasurement(results.last).value = results.last.value

\* C10: after a call of loudness, however it ended, the signal is as long as
\* the call found it.
C10_LengthRestored ==
    results.calls > 0 => results.last.length_after = results.last.length_before

-----------------------------------------------------------------------------
(* BaseTransform: validate, _transform, apply_mask on a batch dictionary *)

\* a batch is a function from its keys to their values; the audio of an
\* AudioSignal is a sequence with one entry (a sequence of samples) per element
EmptyBatch == [k \in {} |-> None]

HasKey(b, k) == k \in DOMAIN b

\* batch[k] = v
SetKey(b, k, v) == [x \in (DOMAIN b) \cup {k} |-> IF x = k THEN v ELSE b[x]]

\* self.keys = keys + ["signal"], for a transform with no keys of its own
TransformKeys == {"signal"}

\* f"{self.__class__.__name__}.mask" of the Silence transform
mask_key == "Silence.mask"

\* lines 20-28; AudioSignal.copy() is a deep copy
validate(b) ==
    IF \E k \in TransformKeys : ~HasKey(b, k)
    THEN [exc |-> "AssertionError", batch |-> b]
    ELSE LET b1 == IF HasKey(b, "original") THEN b ELSE SetKey(b, "original", b["signal"])
         IN  [exc |-> None, batch |-> SetKey(b1, "copy", b1["signal"])]

\* Silence._transform: the signal's audio becomes zeros
silence_transform(b) ==
    SetKey(b, "signal", [e \in 1..Len(b["signal"]) |-> Zeros(Len(b["signal"][e]))])

\* lines 30-37: batch["signal"].audio_data[mask] = copy.audio_data[mask]
apply_mask(b, copy_key) ==
    IF ~HasKey(b, mask_key) THEN b
    ELSE SetKey(b, "signal",
             [e \in 1..Len(b["signal"]) |->
                 IF b[mask_key][e] THEN b[copy_key][e] ELSE b["signal"][e]])

\* lines 45-49
transform(b) ==
    LET v == validate(b)
    IN  IF v.exc # None THEN v
        ELSE [exc |-> None, batch |-> apply_mask(silence_transform(v.batch), "copy")]

\* line 57: mask = state.rand() <= (1 - self.prob), in hundredths
InstantiateMask(rand, prob) == rand <= 100 - prob

-----------------------------------------------------------------------------
(* SpecTransform: a batch is loaded, instantiated and transformed *)

Probs == {0, 50, 100}

Rands == {0, 25, 75}

\* an element holding the level a on both of its samples
ElementAudio(a) == <<a, a>>

InitTransform ==
    /\ \/ batch = EmptyBatch
       \/ \E nb \in 1..MaxB : \E a \in [1..nb -> Samples] :
             batch = SetKey(EmptyBatch, "signal", [e \in 1..nb |-> ElementAudio(a[e])])
    /\ pc = "loaded"
    /\ results = [calls |-> 0, exc |-> None]
    /\ locals = [prob |-> None]
    /\ meter = None
    /\ heap = EmptyHeap
    /\ signal = NoSignal

\* transform.instantiate for every item, collated: one mask entry per element
Instantiate ==
    /\ pc = "loaded"
    /\ HasKey(batch, "signal")
    /\ \E prob \in Probs : \E rand \in [1..Len(batch["signal"]) -> Rands] :
           /\ batch' = SetKey(batch, mask_key,
                              [e \in 1..Len(batch["signal"]) |-> InstantiateMask(rand[e], prob)])
           /\ locals' = [prob |-> prob]
    /\ pc' = "instantiated"
    /\ UNCHANGED <<meter, heap, results, signal>>

\* transform(batch), whole
Transform ==
    /\ pc \in {"loaded", "instantiated", "transformed"}
    /\ results.calls < MaxCalls
    /\ LET r == transform(batch)
       IN  /\ batch' = r.batch
           /\ results' = [calls |-> results.calls + 1, exc |-> r.exc]
           /\ pc' = IF r.exc = None THEN "transformed" ELSE "raised"
    /\ UNCHANGED <<meter, heap, locals, signal>>

NextTransform == Instantiate \/ Transform

SpecTransform == InitTransform /\ [][NextTransform]_vars

\* C2: after transform(batch) with a mask, an element whose mask is True holds
\* the transformed audio (zeros, for Silence) and an element whose mask is False
\* holds the audio of batch["original"].
C2_MaskedIsTransformed ==
    (pc = "transformed" /\ HasKey(batch, mask_key)) =>
        \A e \in 1..Len(batch["signal"]) :
            IF batch[mask_key][e]
            THEN batch["signal"][e] = Zeros(Len(batch["signal"][e]))
            ELSE batch["signal"][e] = batch["original"][e]

====
